---- MODULE Spec2Model ----
(***************************************************************************)
(* A model of packages/parser/src/fs.ts: the recursive markdown loader      *)
(* load / loadMarkdown / loadSlide.  One load call is a sequential stack    *)
(* machine: `stack` holds the active loadMarkdown calls (the awaited        *)
(* recursion), `markdownFiles`, `watchFiles` and `slides` are the three     *)
(* closure variables of load, `io` is the log of the calls made to the      *)
(* injected collaborators (loadSource, parse, existsSync).                  *)
(***************************************************************************)
EXTENDS Integers, Sequences, FiniteSets, TLC

(***************************************************************************)
(* Frontmatter values.  YAML gives strings, booleans and null; a value is   *)
(* a tagged sequence of tokens so that any two values can be compared.      *)
(* A string is <<"str">> followed by its characters (tokens).  A key that   *)
(* the mapping does not have is mapped to Absent.                           *)
(***************************************************************************)
Absent == <<"absent">>
Null == <<"null">>
True == <<"bool", "true">>
False == <<"bool", "false">>
Str(s) == <<"str">> \o s

\* JavaScript truthiness, as read by the `if`s of lines 113 and 114.
Truthy(v) == v \notin {Absent, Null, False, Str(<<>>)}

IsString(v) == v[1] = "str"

Chars(v) == Tail(v)

Keys == {"src", "disabled", "hide", "title"}

NoFm == [k \in Keys |-> Absent]

Fm(src, disabled, hide, title) ==
    [k \in Keys |-> CASE k = "src" -> src
                      [] k = "disabled" -> disabled
                      [] k = "hide" -> hide
                      [] OTHER -> title]

HasKey(fm, k) == fm[k] # Absent

(***************************************************************************)
(* Paths.  A path is a sequence of tokens; every local file lives in the   *)
(* one directory that is both userRoot and the dirname of every document.  *)
(***************************************************************************)
Hash == "#"

IsHttp(p) == p # <<>> /\ p[1] \in {"http://", "https://"}

RECURSIVE IndexOfHash(_, _)
IndexOfHash(s, from) ==
    IF from > Len(s) THEN Len(s) + 1
    ELSE IF s[from] = Hash THEN from
    ELSE IndexOfHash(s, from + 1)

\* String.prototype.split('#'): the sequence of the segments between the '#'s.
RECURSIVE SplitHash(_)
SplitHash(s) ==
    LET h == IndexOfHash(s, 1)
    IN  IF h > Len(s) THEN <<s>>
        ELSE <<SubSeq(s, 1, h - 1)>> \o SplitHash(SubSeq(s, h + 1, Len(s)))

\* const [rawPath, rangeRaw] = src.split('#'); an undefined rangeRaw is the
\* empty text (parseRangeString reads both as "no range").
RawPathOf(src) == SplitHash(src)[1]

RangeRawOf(src) ==
    IF Len(SplitHash(src)) >= 2 THEN SplitHash(src)[2] ELSE <<>>

\* Lines 116-125: a remote path verbatim; '/x' from userRoot, 'x' from the
\* directory of the slide's file; both are the same directory here.
ResolvePath(rawPath) ==
    IF IsHttp(rawPath) THEN rawPath
    ELSE IF rawPath # <<>> /\ rawPath[1] = "/" THEN Tail(rawPath)
    ELSE rawPath

filepath == <<"A">>
PathB == <<"B">>
PathC == <<"C">>
PathM == <<"M">>
PathH == <<"http://", "H">>

(***************************************************************************)
(* The collaborators of ./core, which the loader only calls.               *)
(* The raw text of a document is modelled by what parse makes of it: the   *)
(* sequence of its slides, each with its frontmatter and its title.        *)
(***************************************************************************)
SlideText(fm, title) == [frontmatter |-> fm, title |-> title]

\* A reference to a raw slide (a SourceSlideInfo object): its document and its
\* 1-based position in it.
Ref(path, no) == [filepath |-> path, no |-> no]

\* parse(raw, path, extensions): the document object; slide no starts at line
\* 3 * (no - 1), has no imports yet; the document has no errors yet.
Parse(raw, path) ==
    [filepath |-> path,
     slides |-> [n \in 1..Len(raw) |->
                   [filepath |-> path,
                    no |-> n,
                    start |-> 3 * (n - 1),
                    frontmatter |-> raw[n].frontmatter,
                    title |-> raw[n].title,
                    imports |-> <<>>]],
     errors |-> <<>>]

PageOf(tok) == CASE tok = "1" -> 1 [] tok = "2" -> 2 [] tok = "3" -> 3 [] OTHER -> 4

\* parseRangeString(total, rangeRaw): no range text selects 1..total in order;
\* a range text selects its pages, in the order it names them, repeats kept,
\* pages beyond the document dropped.
ParseRangeString(total, rangeRaw) ==
    IF rangeRaw = <<>> THEN [n \in 1..total |-> n]
    ELSE SelectSeq([j \in 1..Len(rangeRaw) |-> PageOf(rangeRaw[j])],
                   LAMBDA n : n <= total)

(***************************************************************************)
(* The documents a load call may find.  The entry document is any sequence *)
(* of at most MaxEntrySlides slides of EntrySlides, the one of no slide     *)
(* included; B and C are documents of BDocs and CDocs; M does not exist;   *)
(* H is remote.                                                            *)
(***************************************************************************)
MaxEntrySlides == 2

\* The longest chain of nested loadMarkdown calls that is followed.
MaxDepth == 4

Plain == SlideText(NoFm, Str(<<"h">>))
Titled(t) == SlideText(Fm(Absent, Absent, Absent, Str(<<t>>)), Str(<<t>>))
Import(src) == SlideText(Fm(Str(src), Absent, Absent, Absent), Absent)

EntrySlides ==
    { Plain,
      Titled("x"),
      SlideText(Fm(Str(<<"B">>), True, Absent, Absent), Absent),
      SlideText(Fm(Str(<<>>), Absent, Absent, Absent), Str(<<"h">>)),
      SlideText(Fm(True, Absent, Absent, Absent), Absent),
      Import(<<"B">>),
      SlideText(Fm(Str(<<"/", "B", "#", "2", "1">>), False, Absent, Str(<<"y">>)),
                Str(<<"y">>)),
      SlideText(Fm(Str(<<"C">>), Absent, False, Null), Absent),
      Import(<<"M">>),
      Import(PathH) }

BDocs ==
    { <<Plain, Titled("x")>>,
      <<SlideText(Fm(Absent, Absent, True, Str(<<"x">>)), Str(<<"x">>)),
        SlideText(Fm(Str(<<"C", "#", "2", "2", "1">>), Absent, Absent, Str(<<"z">>)),
                  Str(<<"z">>)),
        Plain>>,
      <<Import(PathH),
        SlideText(Fm(Str(<<"C">>), True, Absent, Absent), Absent),
        Import(<<"M">>)>>,
      <<Plain, Import(<<"A">>)>> }

CDocs ==
    { <<Titled("w"), SlideText(Fm(Null, Absent, Absent, Absent), Absent)>>,
      <<SlideText(Fm(Str(<<>>), True, Absent, Str(<<"w">>)), Str(<<"w">>)),
        SlideText(Fm(Absent, False, Null, Absent), Str(<<"h">>))>> }

HDoc == <<Plain>>

RECURSIVE SeqsOfLen(_, _)
SeqsOfLen(S, n) ==
    IF n = 0 THEN {<<>>}
    ELSE {Append(s, x) : s \in SeqsOfLen(S, n - 1), x \in S}

EntryDocs == UNION {SeqsOfLen(EntrySlides, n) : n \in 0..MaxEntrySlides}

\* The paths whose fetch or parse may fail.
Flaky == {filepath, PathC, PathH}

(***************************************************************************)
(* State.                                                                  *)
(*   sources        what loadSource returns for each path that can be      *)
(*                  fetched (the files on disk and the remote documents)   *)
(*   pc             "init", "load" (inside the loader), "done", "rejected",*)
(*                  "saved" (save was called on a loaded document)         *)
(*   stack          the active loadMarkdown calls, the entry call first    *)
(*   markdownFiles  the memo: path -> parsed document (mutated in place)   *)
(*   watchFiles     path -> set of lines                                   *)
(*   slides         the output sequence                                    *)
(*   headmatter     the headmatter of the returned aggregate               *)
(*   io             the calls made so far to loadSource, parse, existsSync *)
(*   thrownAt       where a fetch or parse failed: the loop positions of   *)
(*                  the calls that were active (history of the             *)
(*                  environment's choices)                                 *)
(*   calls          the number of loadMarkdown calls made so far           *)
(*   writes         the writeFile calls of save: path and text             *)
(*   saved          the argument of the save call and what it returned     *)
(***************************************************************************)
VARIABLES sources, pc, stack, markdownFiles, watchFiles, slides, headmatter,
          io, thrownAt, calls, writes, saved

vars == <<sources, pc, stack, markdownFiles, watchFiles, slides, headmatter,
          io, thrownAt, calls, writes, saved>>

\* An importers / importChain argument: undefined, or a list of slide references.
Undefined == [defined |-> FALSE, list |-> <<>>]
Chain(list) == [defined |-> TRUE, list |-> list]

Event(op, path, ok) == [op |-> op, path |-> path, ok |-> ok]

\* existsSync(path): the local files that loadSource can read.
ExistsSync(path) == path \in DOMAIN sources /\ ~IsHttp(path)

\* A faulty variant of Skipped: hide is not read.
SkippedDisabledOnly(slide) == Truthy(slide.frontmatter["disabled"])

\* Line 113: the test reads the slide's own frontmatter.
Skipped(slide) ==
    Truthy(slide.frontmatter["disabled"]) \/ Truthy(slide.frontmatter["hide"])

\* Line 114.
IsImport(slide) == Truthy(slide.frontmatter["src"])

\* A faulty variant of Spread: the operands swapped, the slide's own keys win.
SpreadOwnFirst(fm, override) ==
    [k \in Keys |-> IF HasKey(fm, k) THEN fm[k] ELSE override[k]]

\* { ...fm, ...override }: every key of override replaces fm's.
Spread(fm, override) ==
    [k \in Keys |-> IF HasKey(override, k) THEN override[k] ELSE fm[k]]

\* A faulty variant of MergedFrontmatter: src is not deleted.
MergedKeepingSrc(fm, override) == Spread(fm, override)

\* Lines 127-131: the override passed down by an import slide.
MergedFrontmatter(fm, override) ==
    [Spread(fm, override) EXCEPT !["src"] = Absent]

\* A faulty variant of ExtendChain: the slide is put first.
ExtendChainFront(importChain, slide) ==
    IF importChain.defined THEN Chain(<<slide>> \o importChain.list)
    ELSE Chain(<<slide>>)

\* Line 144: importChain ? [...importChain, slide] : [slide].
ExtendChain(importChain, slide) ==
    IF importChain.defined THEN Chain(Append(importChain.list, slide))
    ELSE Chain(<<slide>>)

\* Line 85: importers?.at(-1) is an object (truthy at line 98) or undefined.
HasDirectImporter(importers) == importers.defined /\ importers.list # <<>>
DirectImporter(importers) == importers.list[Len(importers.list)]

\* A faulty variant of ResolvedSlide: the index counts from one.
ResolvedSlideFromOne(out, slide, override, importChain) ==
    [frontmatter |-> [k \in Keys |-> IF HasKey(override, k) THEN override[k]
                                      ELSE slide.frontmatter[k]],
     title |-> slide.title,
     index |-> Len(out) + 1,
     importChain |-> importChain,
     source |-> Ref(slide.filepath, slide.no)]

\* Lines 148-159: the resolved slide pushed on `out`.
ResolvedSlide(out, slide, override, importChain) ==
    [frontmatter |-> Spread(slide.frontmatter, override),
     title |-> slide.title,
     index |-> Len(out),
     importChain |-> importChain,
     source |-> Ref(slide.filepath, slide.no)]

\* A faulty variant of PushSlide: the slide is put in front of the output.
PushSlideFront(out, slide, override, importChain) ==
    <<ResolvedSlide(out, slide, override, importChain)>> \o out

PushSlide(out, slide, override, importChain) ==
    Append(out, ResolvedSlide(out, slide, override, importChain))

\* md.errors ??= []; md.errors.push({ row, message }) on the document at path.
PushError(memo, path, row, message) ==
    [memo EXCEPT ![path].errors = Append(@, [row |-> row, message |-> message])]

\* Lines 98-101: the direct importer, an object of the memo, gets the slide.
PushImport(memo, importers, slide) ==
    IF HasDirectImporter(importers)
    THEN LET d == DirectImporter(importers)
         IN  [memo EXCEPT ![d.filepath].slides[d.no].imports = Append(@, slide)]
    ELSE memo

\* A loadMarkdown call: its arguments, the indices its loop runs over (idxs),
\* the position of the loop in them (i), and where it stands: "enter" before
\* line 77, "loop" at line 86.  cached is the outcome of the test of line 78,
\* base is slides.length when the call was made.
Frame(path, rangeRaw, override, importers, base) ==
    [path |-> path, range |-> rangeRaw, frontmatterOverride |-> override,
     importers |-> importers, st |-> "enter", cached |-> FALSE,
     idxs |-> <<>>, i |-> 1, base |-> base]

Top == stack[Len(stack)]

\* The slide the loop of frame f is at: md.slides[index - 1].
SubSlide(memo, f) == memo[f.path].slides[f.idxs[f.i]]

InLoop == pc = "load" /\ stack # <<>> /\ Top.st = "loop" /\ Top.i <= Len(Top.idxs)

\* The loop of the top call moves to its next index.
Continue(stk) == [stk EXCEPT ![Len(stk)].i = @ + 1]

\* The loop positions of the active calls.
Address(stk) == [j \in 1..Len(stk) |-> stk[j].i]

\* Some slide of the text names path as its src.
Names(raw, path) ==
    \E n \in 1..Len(raw) :
        /\ IsString(raw[n].frontmatter["src"])
        /\ ResolvePath(RawPathOf(Chars(raw[n].frontmatter["src"]))) = path

\* A file that no document names is never read: it is the same in all the
\* initial states.
Init ==
    /\ \E a \in EntryDocs, b \in BDocs, c \in CDocs :
          /\ ~Names(a, PathB) => b = <<Plain, Titled("x")>>
          /\ ~(Names(a, PathC) \/ (Names(a, PathB) /\ Names(b, PathC)))
                => c = <<Titled("w"), SlideText(Fm(Null, Absent, Absent, Absent), Absent)>>
          /\ sources = (filepath :> a) @@ (PathB :> b) @@ (PathC :> c)
                          @@ (PathH :> HDoc)
    /\ pc = "init"
    /\ stack = <<>>
    /\ markdownFiles = [p \in {} |-> Parse(<<>>, p)]
    /\ watchFiles = [p \in {} |-> {}]
    /\ slides = <<>>
    /\ headmatter = NoFm
    /\ io = <<>>
    /\ thrownAt = {}
    /\ calls = 0
    /\ writes = <<>>
    /\ saved = [filepath |-> <<>>, text |-> <<>>]

(***************************************************************************)
(* load, lines 36-69 and the call of line 163.                             *)
(***************************************************************************)
\* Line 48 returns the entry's text; the loader is then called on the entry.
LoadSourceEntry ==
    /\ pc = "init"
    /\ io' = Append(io, Event("loadSource", filepath, TRUE))
    /\ pc' = "load"
    /\ stack' = <<Frame(filepath, <<>>, NoFm, Undefined, Len(slides))>>
    /\ calls' = calls + 1
    /\ UNCHANGED <<writes, saved, sources, markdownFiles, watchFiles, slides, headmatter, thrownAt>>

\* Line 48 rejects: load rejects.
LoadSourceEntryFail ==
    /\ pc = "init"
    /\ filepath \in Flaky
    /\ io' = Append(io, Event("loadSource", filepath, FALSE))
    /\ pc' = "rejected"
    /\ UNCHANGED <<calls, writes, saved, sources, stack, markdownFiles, watchFiles, slides, headmatter,
                   thrownAt>>

(***************************************************************************)
(* loadMarkdown, lines 77-86: the memo, the fetch and the parse.           *)
(***************************************************************************)
AtEnter == pc = "load" /\ stack # <<>> /\ Top.st = "enter"

\* A faulty variant of EnterLoop: a cached document is returned at once, its slides
\* not resolved again.
EnterLoopOnce(stk, md, cached) ==
    [stk EXCEPT ![Len(stk)] =
        [@ EXCEPT !.st = "loop", !.cached = cached,
                  !.idxs = IF cached THEN <<>>
                           ELSE ParseRangeString(Len(md.slides), stk[Len(stk)].range)]]

\* The call starts its loop over parseRangeString(md.slides.length, range).
EnterLoop(stk, md, cached) ==
    [stk EXCEPT ![Len(stk)] =
        [@ EXCEPT !.st = "loop", !.cached = cached,
                  !.idxs = ParseRangeString(Len(md.slides), stk[Len(stk)].range)]]

\* A faulty variant of MemoHit: the memo is never consulted.
MemoNever(memo, path) == FALSE

\* Line 78: the memo has the path.
MemoHit(memo, path) == path \in DOMAIN memo

LoadMarkdownCached ==
    /\ AtEnter
    /\ MemoHit(markdownFiles, Top.path)
    /\ stack' = EnterLoop(stack, markdownFiles[Top.path], TRUE)
    /\ UNCHANGED <<calls, writes, saved, sources, pc, markdownFiles, watchFiles, slides, headmatter, io,
                   thrownAt>>

\* Line 81: markdownFiles[path] = md.
Memoize(memo, path, md) == (path :> md) @@ memo

\* A faulty variant of Watch: the path is not added to the watch map.
WatchNothing(watch, path) == watch

\* Line 82: watchFiles[path] = new Set().
Watch(watch, path) == (path :> {}) @@ watch

LoadMarkdownFetch ==
    /\ AtEnter
    /\ ~MemoHit(markdownFiles, Top.path)
    /\ Top.path \in DOMAIN sources
    /\ LET path == Top.path
           md == Parse(sources[path], path)
       IN  /\ io' = io \o <<Event("loadSource", path, TRUE), Event("parse", path, TRUE)>>
           /\ markdownFiles' = Memoize(markdownFiles, path, md)
           /\ watchFiles' = Watch(watchFiles, path)
           /\ stack' = EnterLoop(stack, md, FALSE)
    /\ UNCHANGED <<calls, writes, saved, sources, pc, slides, headmatter, thrownAt>>

LoadError(e) == <<"Error when loading slide: ">> \o e
NotFoundError(path) == <<"Imported markdown file not found: ">> \o path

\* A faulty variant of Catch: the error is recorded on the entry document.
CatchOnEntry(memo, f, e) ==
    PushError(memo, filepath, SubSlide(memo, f).start, LoadError(e))

\* Lines 90-96: the catch of the loop of call f records the thrown value e.
Catch(memo, f, e) ==
    PushError(memo, f.path, SubSlide(memo, f).start, LoadError(e))

\* A faulty variant of Uncaught: no catch is taken into account.
UncaughtAlways(below) == TRUE

\* A throw of a loadMarkdown call is uncaught when no call is below it: the
\* call of line 163 stands in no try, the calls of line 140 stand in that of
\* the importing loop (lines 88-97).
Uncaught(below) == below = <<>>

\* Line 79 or line 80 throws: the call ends, and so does the loadSlide that
\* made it; the loop of the importing call catches, or load rejects.
LoadMarkdownThrow ==
    /\ AtEnter
    /\ ~MemoHit(markdownFiles, Top.path)
    /\ \E kind \in {"fetch", "parse"} :
         /\ kind = "fetch" => (Top.path \in Flaky \/ Top.path \notin DOMAIN sources)
         /\ kind = "parse" => (Top.path \in Flaky /\ Top.path \in DOMAIN sources)
         /\ io' = IF kind = "fetch"
                  THEN Append(io, Event("loadSource", Top.path, FALSE))
                  ELSE io \o <<Event("loadSource", Top.path, TRUE),
                               Event("parse", Top.path, FALSE)>>
         /\ LET below == SubSeq(stack, 1, Len(stack) - 1)
                e == <<kind, " failed: ">> \o Top.path
            IN  /\ thrownAt' = thrownAt \cup {Address(below)}
                /\ IF Uncaught(below)
                   THEN /\ pc' = "rejected"
                        /\ stack' = <<>>
                        /\ UNCHANGED markdownFiles
                   ELSE /\ pc' = pc
                        /\ markdownFiles' = Catch(markdownFiles, below[Len(below)], e)
                        /\ stack' = Continue(below)
    /\ UNCHANGED <<calls, writes, saved, sources, watchFiles, slides, headmatter>>

(***************************************************************************)
(* One iteration of the loop of lines 86-102, with the loadSlide it calls. *)
(***************************************************************************)
\* Line 113 returns; lines 98-101.
LoadSlideSkip ==
    /\ InLoop
    /\ LET sub == SubSlide(markdownFiles, Top)
       IN  /\ Skipped(sub)
           /\ markdownFiles' = PushImport(markdownFiles, Top.importers,
                                          Ref(sub.filepath, sub.no))
    /\ stack' = Continue(stack)
    /\ UNCHANGED <<calls, writes, saved, sources, pc, watchFiles, slides, headmatter, io, thrownAt>>

\* Lines 147-160: a terminal slide is emitted; lines 98-101.
LoadSlideEmit ==
    /\ InLoop
    /\ LET sub == SubSlide(markdownFiles, Top)
       IN  /\ ~Skipped(sub)
           /\ ~IsImport(sub)
           /\ slides' = PushSlide(slides, sub, Top.frontmatterOverride, Top.importers)
           /\ markdownFiles' = PushImport(markdownFiles, Top.importers,
                                          Ref(sub.filepath, sub.no))
    /\ stack' = Continue(stack)
    /\ UNCHANGED <<calls, writes, saved, sources, pc, watchFiles, headmatter, io, thrownAt>>

\* Line 115: src is truthy and no string, src.split throws; lines 90-96.
LoadSlideTypeError ==
    /\ InLoop
    /\ LET sub == SubSlide(markdownFiles, Top)
       IN  /\ ~Skipped(sub)
           /\ IsImport(sub)
           /\ ~IsString(sub.frontmatter["src"])
           /\ markdownFiles' = Catch(markdownFiles, Top, <<"TypeError">>)
    /\ stack' = Continue(stack)
    /\ UNCHANGED <<calls, writes, saved, sources, pc, watchFiles, slides, headmatter, io, thrownAt>>

\* The path an import slide names (lines 115-125).
ImportPath(slide) == ResolvePath(RawPathOf(Chars(slide.frontmatter["src"])))
ImportRange(slide) == RangeRawOf(Chars(slide.frontmatter["src"]))

\* A faulty variant of NotFound: the existence of the file is not checked.
NotFoundNever(path) == FALSE

\* Line 133.
NotFound(path) == ~IsHttp(path) /\ ~ExistsSync(path)

\* Lines 133-138: the local file is missing; lines 98-101.
LoadSlideNotFound ==
    /\ InLoop
    /\ LET sub == SubSlide(markdownFiles, Top)
       IN  /\ ~Skipped(sub)
           /\ IsImport(sub)
           /\ IsString(sub.frontmatter["src"])
           /\ NotFound(ImportPath(sub))
           /\ io' = Append(io, Event("existsSync", ImportPath(sub), FALSE))
           /\ markdownFiles' =
                PushImport(PushError(markdownFiles, Top.path, sub.start,
                                     NotFoundError(ImportPath(sub))),
                           Top.importers, Ref(sub.filepath, sub.no))
    /\ stack' = Continue(stack)
    /\ UNCHANGED <<calls, writes, saved, sources, pc, watchFiles, slides, headmatter, thrownAt>>

\* A faulty variant of AfterMerge: src is deleted from the frontmatter of the
\* raw slide itself.
AfterMergeInPlace(memo, slide) ==
    [memo EXCEPT ![slide.filepath].slides[slide.no].frontmatter["src"] = Absent]

\* The memo after lines 127-131: the object literal of lines 127-130 is a new
\* object, and line 131 deletes src from it; the raw slide is only read.
AfterMerge(memo, slide) == memo

\* Lines 139-146: loadMarkdown is called on the imported document.
LoadSlideImport ==
    /\ InLoop
    /\ Len(stack) < MaxDepth
    /\ LET sub == SubSlide(markdownFiles, Top)
       IN  /\ ~Skipped(sub)
           /\ IsImport(sub)
           /\ IsString(sub.frontmatter["src"])
           /\ ~NotFound(ImportPath(sub))
           /\ io' = IF IsHttp(ImportPath(sub)) THEN io
                    ELSE Append(io, Event("existsSync", ImportPath(sub), TRUE))
           /\ stack' = Append(stack,
                  Frame(ImportPath(sub), ImportRange(sub),
                        MergedFrontmatter(sub.frontmatter, Top.frontmatterOverride),
                        ExtendChain(Top.importers, Ref(sub.filepath, sub.no)),
                        Len(slides)))
           /\ markdownFiles' = AfterMerge(markdownFiles, sub)
    /\ calls' = calls + 1
    /\ UNCHANGED <<writes, saved, sources, pc, watchFiles, slides, headmatter,
                   thrownAt>>

\* Line 104: the loop is over.  The loadSlide that made the call returns, and
\* the loop of the importing call runs lines 98-101 for its import slide.
LoadMarkdownReturn ==
    /\ pc = "load" /\ stack # <<>> /\ Top.st = "loop" /\ Top.i > Len(Top.idxs)
    /\ LET below == SubSeq(stack, 1, Len(stack) - 1)
       IN  IF below = <<>>
           THEN /\ stack' = below
                /\ UNCHANGED markdownFiles
           ELSE LET f == below[Len(below)]
                    sub == SubSlide(markdownFiles, f)
                IN  /\ markdownFiles' = PushImport(markdownFiles, f.importers,
                                                   Ref(sub.filepath, sub.no))
                    /\ stack' = Continue(below)
    /\ UNCHANGED <<calls, writes, saved, sources, pc, watchFiles, slides, headmatter, io, thrownAt>>

\* A faulty variant of Headmatter: the title of the first output slide is
\* assigned, not defaulted.
HeadmatterAssigned(entry, out) ==
    LET hm == IF entry.slides # <<>> THEN entry.slides[1].frontmatter ELSE NoFm
    IN  IF out # <<>> /\ Truthy(out[1].title)
        THEN [hm EXCEPT !["title"] = out[1].title]
        ELSE hm

\* Lines 165-168.
Headmatter(entry, out) ==
    LET hm == IF entry.slides # <<>> THEN entry.slides[1].frontmatter ELSE NoFm
    IN  IF out # <<>> /\ Truthy(out[1].title) /\ hm["title"] \in {Absent, Null}
        THEN [hm EXCEPT !["title"] = out[1].title]
        ELSE hm

\* Lines 163-177: the entry call has returned; the aggregate is built.
Finish ==
    /\ pc = "load"
    /\ stack = <<>>
    /\ headmatter' = Headmatter(markdownFiles[filepath], slides)
    /\ pc' = "done"
    /\ UNCHANGED <<calls, writes, saved, sources, stack, markdownFiles, watchFiles, slides, io, thrownAt>>

(***************************************************************************)
(* save, lines 180-185, called on a document that load returned.           *)
(***************************************************************************)
\* stringify(markdown): the text of the document, slide by slide.
Stringify(md) ==
    [n \in 1..Len(md.slides) |->
        SlideText(md.slides[n].frontmatter, md.slides[n].title)]

\* A faulty variant of IsRemoteFile: no document is taken for remote.
IsRemoteNever(md) == FALSE

\* Line 181: /^https?:\/\//.test(markdown.filepath).
IsRemoteFile(md) == IsHttp(md.filepath)

Save ==
    /\ pc = "done"
    /\ \E p \in DOMAIN markdownFiles :
          LET markdown == markdownFiles[p]
              fileContent == Stringify(markdown)
          IN  /\ writes' = IF IsRemoteFile(markdown) THEN writes
                           ELSE Append(writes, [path |-> markdown.filepath,
                                                text |-> fileContent])
              /\ saved' = [filepath |-> markdown.filepath, text |-> fileContent]
    /\ pc' = "saved"
    /\ UNCHANGED <<sources, stack, markdownFiles, watchFiles, slides, headmatter,
                   io, thrownAt, calls>>

Next ==
    \/ Save
    \/ LoadSourceEntry
    \/ LoadSourceEntryFail
    \/ LoadMarkdownCached
    \/ LoadMarkdownFetch
    \/ LoadMarkdownThrow
    \/ LoadSlideSkip
    \/ LoadSlideEmit
    \/ LoadSlideTypeError
    \/ LoadSlideNotFound
    \/ LoadSlideImport
    \/ LoadMarkdownReturn
    \/ Finish

Spec == Init /\ [][Next]_vars

(***************************************************************************)
(* The import tree of a load call, read off the documents themselves: the  *)
(* terminal slides in depth-first, left-to-right order.  addr is the       *)
(* position of the document's import in the tree (the loop positions of    *)
(* its ancestors); a branch whose fetch or parse failed has no slides.     *)
(***************************************************************************)
RECURSIVE PreOrderFrom(_, _, _, _)
PreOrderFrom(path, rangeRaw, addr, j) ==
    LET raw == sources[path]
        idxs == ParseRangeString(Len(raw), rangeRaw)
    IN  IF j > Len(idxs) THEN <<>>
        ELSE LET t == raw[idxs[j]]
                 a == Append(addr, j)
                 here ==
                    IF Truthy(t.frontmatter["disabled"]) \/ Truthy(t.frontmatter["hide"])
                    THEN <<>>
                    ELSE IF ~Truthy(t.frontmatter["src"])
                    THEN <<Ref(path, idxs[j])>>
                    ELSE IF ~IsString(t.frontmatter["src"]) THEN <<>>
                    ELSE IF NotFound(ImportPath(t)) THEN <<>>
                    ELSE IF a \in thrownAt THEN <<>>
                    ELSE PreOrderFrom(ImportPath(t), ImportRange(t), a, 1)
             IN  here \o PreOrderFrom(path, rangeRaw, addr, j + 1)

PreOrder == PreOrderFrom(filepath, <<>>, <<>>, 1)

SourcesOf(out) == [n \in 1..Len(out) |-> out[n].source]

\* C1: when load returns, the output sequence is the pre-order traversal of
\* the import tree: the terminal slides reached through an import slide stand
\* together at the place of that import slide, before its later siblings.
C1_PreOrder == pc = "done" => SourcesOf(slides) = PreOrder

\* C1 witness: entry [src: B, c] with B = [b1, b2] has returned [b1, b2, c].
C1_Witness ==
    /\ pc = "done"
    /\ Len(sources[filepath]) = 2
    /\ IsImport(sources[filepath][1])
    /\ SourcesOf(slides) = <<Ref(PathB, 1), Ref(PathB, 2), Ref(filepath, 2)>>

IsPrefix(s, t) == Len(s) <= Len(t) /\ SubSeq(t, 1, Len(s)) = s

IndexIsPosition == \A n \in 1..Len(slides) : slides[n].index = n - 1

\* C2: in every state the n-th output slide (from 0) has index n, and a step
\* only appends to the output: a slide once emitted keeps its place and index.
C2_Index == [](IndexIsPosition) /\ [][IsPrefix(slides, slides')]_vars

\* C2 witness: slides were emitted after a caught error and a skipped slide.
C2_Witness ==
    /\ Len(slides) >= 2
    /\ \E p \in DOMAIN markdownFiles : markdownFiles[p].errors # <<>>
    /\ \E p \in DOMAIN markdownFiles :
         \E n \in 1..Len(markdownFiles[p].slides) :
            /\ Skipped(markdownFiles[p].slides[n])
            /\ \E m \in 1..Len(slides) :
                  slides[m].source.filepath = p /\ slides[m].source.no > n

(***************************************************************************)
(* The calls made to loadSource and parse.                                 *)
(***************************************************************************)
Calls(op, path) == {n \in 1..Len(io) : io[n].op = op /\ io[n].path = path}
Failed(path) ==
    {n \in 1..Len(io) : io[n].path = path /\ io[n].op # "existsSync" /\ ~io[n].ok}
Fetchable == DOMAIN sources \cup {PathM}

\* C3 as stated: loadSource and parse are called at most once for any path,
\* the entry's included.
C3_OncePerPath ==
    \A p \in Fetchable :
        Cardinality(Calls("loadSource", p)) <= 1 /\ Cardinality(Calls("parse", p)) <= 1

\* C3 amended: once a fetch and parse of a path succeeded (the path is in the
\* memo) neither loadSource nor parse is called for it again; load itself
\* fetches the entry once more (line 48), and only a failed fetch or parse
\* makes a path fetched again.
C3_OncePerMemoizedPath ==
    /\ \A m \in 1..Len(io) : \A n \in (m + 1)..Len(io) :
          (io[m].op = "parse" /\ io[m].ok)
             => ~(io[n].path = io[m].path /\ io[n].op \in {"loadSource", "parse"})
    /\ \A p \in Fetchable :
          /\ Cardinality(Calls("loadSource", p))
                <= 1 + Cardinality(Failed(p)) + (IF p = filepath THEN 1 ELSE 0)
          /\ Cardinality(Calls("parse", p)) <= 1 + Cardinality(Failed(p))
          /\ p \in DOMAIN markdownFiles
                <=> \E n \in Calls("parse", p) : io[n].ok

\* C3 witness: a path that was fetched once is met again and found in the memo.
C3_Witness ==
    /\ pc = "load" /\ stack # <<>>
    /\ Top.cached /\ Top.path # filepath
    /\ Cardinality(Calls("loadSource", Top.path)) = 1
    /\ Cardinality(Calls("parse", Top.path)) = 1

(***************************************************************************)
(* The slides a call has emitted, against the import tree of its document. *)
(***************************************************************************)
RECURSIVE PreOrderUpTo(_, _, _, _, _)
PreOrderUpTo(path, rangeRaw, addr, j, last) ==
    LET raw == sources[path]
        idxs == ParseRangeString(Len(raw), rangeRaw)
    IN  IF j > last \/ j > Len(idxs) THEN <<>>
        ELSE LET t == raw[idxs[j]]
                 a == Append(addr, j)
                 here ==
                    IF Truthy(t.frontmatter["disabled"]) \/ Truthy(t.frontmatter["hide"])
                    THEN <<>>
                    ELSE IF ~Truthy(t.frontmatter["src"])
                    THEN <<Ref(path, idxs[j])>>
                    ELSE IF ~IsString(t.frontmatter["src"]) THEN <<>>
                    ELSE IF NotFound(ImportPath(t)) THEN <<>>
                    ELSE IF a \in thrownAt THEN <<>>
                    ELSE PreOrderFrom(ImportPath(t), ImportRange(t), a, 1)
             IN  here \o PreOrderUpTo(path, rangeRaw, addr, j + 1, last)

EmittedSince(base) == SourcesOf(SubSeq(slides, base + 1, Len(slides)))

CachedCallResolvesRange ==
    (pc = "load" /\ stack # <<>> /\ Top.st = "loop" /\ Top.cached) =>
        /\ Top.idxs = ParseRangeString(Len(sources[Top.path]), Top.range)
        /\ EmittedSince(Top.base) =
              PreOrderUpTo(Top.path, Top.range,
                           Address(SubSeq(stack, 1, Len(stack) - 1)), 1, Top.i - 1)

\* C4: a call for a path that is in the memo changes neither the memo nor the
\* io log (the cached document is used), and its loop resolves every slide the
\* requested range selects, in the range's order: what it has emitted is the
\* traversal of the slides its loop has passed.
C4_CachedCall ==
    /\ [](CachedCallResolvesRange)
    /\ [][(AtEnter /\ Top.path \in DOMAIN markdownFiles /\ stack' # stack)
            => (markdownFiles' = markdownFiles /\ io' = io /\ watchFiles' = watchFiles
                /\ Len(stack') = Len(stack) /\ stack'[Len(stack')].st = "loop")]_vars

\* C4 witness: a cached call with range 2,1 has emitted the two slides of its
\* document in that order, slides a first import had emitted before.
C4_Witness ==
    /\ pc = "load" /\ stack # <<>>
    /\ Top.cached /\ Top.st = "loop" /\ Top.i > Len(Top.idxs)
    /\ Top.idxs = <<2, 1>>
    /\ EmittedSince(Top.base) = <<Ref(Top.path, 2), Ref(Top.path, 1)>>
    /\ \E n \in 1..Top.base : slides[n].source = Ref(Top.path, 2)

(***************************************************************************)
(* Disabled and hidden slides.                                             *)
(***************************************************************************)
RawFm(ref) == sources[ref.filepath][ref.no].frontmatter

Off(ref) == Truthy(RawFm(ref)["disabled"]) \/ Truthy(RawFm(ref)["hide"])

\* C5: a raw slide whose own frontmatter has disabled or hide truthy is the
\* source of no output slide, stands in no importChain, and no loadMarkdown
\* call is made on its account, whatever override its importers passed down.
C5_DisabledNeverLoaded ==
    /\ \A n \in 1..Len(slides) :
          /\ ~Off(slides[n].source)
          /\ \A j \in 1..Len(slides[n].importChain.list) :
                ~Off(slides[n].importChain.list[j])
    /\ \A d \in 1..Len(stack) :
          \A j \in 1..Len(stack[d].importers.list) : ~Off(stack[d].importers.list[j])

\* C5 witness: under an override with disabled: false the loop has passed a
\* slide that has disabled: true and a src.
C5_Witness ==
    /\ pc = "load" /\ stack # <<>> /\ Top.st = "loop" /\ Top.i > 1
    /\ Top.frontmatterOverride["disabled"] = False
    /\ LET ref == Ref(Top.path, Top.idxs[Top.i - 1])
       IN  Truthy(RawFm(ref)["disabled"]) /\ Truthy(RawFm(ref)["src"])

(***************************************************************************)
(* Frontmatter of the output slides.                                       *)
(***************************************************************************)
\* The import slides of list that define key k, by position.
Defining(list, k) == {j \in 1..Len(list) : HasKey(RawFm(list[j]), k)}

Min(S) == CHOOSE x \in S : \A y \in S : x <= y

\* C6: for every output slide and key k other than src, the emitted value is
\* that of the outermost import slide of the importChain that defines k, and
\* the terminal slide's own value when none does.
C6_OverridePrecedence ==
    \A n \in 1..Len(slides) : \A k \in Keys \ {"src"} :
        LET list == slides[n].importChain.list
        IN  slides[n].frontmatter[k] =
               IF Defining(list, k) # {}
               THEN RawFm(list[Min(Defining(list, k))])[k]
               ELSE RawFm(slides[n].source)[k]

\* C6 witness: a slide with its own title was emitted through two import
\* slides with two other titles, and carries the outer one's.
C6_Witness ==
    \E n \in 1..Len(slides) :
        LET list == slides[n].importChain.list
        IN  /\ Len(list) = 2
            /\ HasKey(RawFm(slides[n].source), "title")
            /\ HasKey(RawFm(list[1]), "title") /\ HasKey(RawFm(list[2]), "title")
            /\ RawFm(list[1])["title"] # RawFm(list[2])["title"]
            /\ RawFm(list[2])["title"] # RawFm(slides[n].source)["title"]
            /\ slides[n].frontmatter["title"] = RawFm(list[1])["title"]

\* C7 as stated: no output slide's frontmatter has a src key, and no override
\* passed to loadMarkdown has one.
C7_NoSrcKey ==
    /\ \A n \in 1..Len(slides) : ~HasKey(slides[n].frontmatter, "src")
    /\ \A d \in 1..Len(stack) : ~HasKey(stack[d].frontmatterOverride, "src")

\* C7 amended: no override passed to loadMarkdown has a src key and no output
\* slide has a truthy src; the src of an output slide is the terminal slide's
\* own src, which is absent or falsy (empty string, null) and is not deleted.
C7_NoTruthySrc ==
    /\ \A n \in 1..Len(slides) :
          /\ ~Truthy(slides[n].frontmatter["src"])
          /\ slides[n].frontmatter["src"] = RawFm(slides[n].source)["src"]
    /\ \A d \in 1..Len(stack) : ~HasKey(stack[d].frontmatterOverride, "src")

\* C7 witness: a slide with src: null was emitted through an import slide,
\* whose src is a string, and still has its src key.
C7_Witness ==
    \E n \in 1..Len(slides) :
        /\ slides[n].importChain.defined
        /\ slides[n].frontmatter["src"] = Null
        /\ IsString(RawFm(slides[n].importChain.list[1])["src"])

(***************************************************************************)
(* The import chain.                                                       *)
(***************************************************************************)
\* The slide the loop of each active call is at, the top call's excepted.
ImportersOnStack ==
    [d \in 1..(Len(stack) - 1) |->
        Ref(stack[d].path, stack[d].idxs[stack[d].i])]

\* C8: the importChain of a slide, when it is emitted, is the sequence of the
\* import slides the active calls are at, the entry's first and the direct
\* importer's last, the emitted slide itself not in it: as long as the nesting
\* of the calls; undefined, and no empty list, exactly when the entry call
\* emits the slide.
C8_ImportChain ==
    [][Len(slides') > Len(slides) =>
         LET s == slides'[Len(slides')]
         IN  /\ s.source = Ref(Top.path, Top.idxs[Top.i])
             /\ s.importChain.defined <=> Len(stack) > 1
             /\ s.importChain.list = ImportersOnStack
             /\ Len(s.importChain.list) = Len(stack) - 1
             /\ \A j \in 1..Len(s.importChain.list) :
                   Truthy(RawFm(s.importChain.list[j])["src"])]_vars

\* C8 witness: a slide of C was emitted through an import slide of B and one
\* of the entry, and a slide of the entry without importChain.
C8_Witness ==
    /\ \E n \in 1..Len(slides) :
          /\ slides[n].source.filepath = PathC
          /\ Len(slides[n].importChain.list) = 2
          /\ slides[n].importChain.list[1].filepath = filepath
          /\ slides[n].importChain.list[2].filepath = PathB
    /\ \E n \in 1..Len(slides) :
          slides[n].source.filepath = filepath /\ ~slides[n].importChain.defined

(***************************************************************************)
(* Errors.                                                                 *)
(***************************************************************************)
\* The slide the loop of call f is at, as the document's text has it.
RawAt(f) == sources[f.path][f.idxs[f.i]]

StartOf(f) == 3 * (f.idxs[f.i] - 1)

\* A step that appends exactly err to the errors of the document at path,
\* adds no document to the memo and changes no other document's errors.
OneErrorOn(path, err) ==
    /\ DOMAIN markdownFiles' = DOMAIN markdownFiles
    /\ markdownFiles'[path].errors = Append(markdownFiles[path].errors, err)
    /\ \A p \in DOMAIN markdownFiles \ {path} :
          markdownFiles'[p].errors = markdownFiles[p].errors

\* A step that changes no imports list (nor anything else of a raw slide).
NoImportAdded ==
    \A p \in DOMAIN markdownFiles : markdownFiles'[p].slides = markdownFiles[p].slides

\* The loop of the call at depth d goes on with its next index, and that
\* call is the top one.
LoopGoesOn(d) ==
    /\ pc' = "load"
    /\ Len(stack') = d
    /\ SubSeq(stack', 1, d - 1) = SubSeq(stack, 1, d - 1)
    /\ stack'[d] = [stack[d] EXCEPT !.i = stack[d].i + 1]

\* The loop is at a slide that is not off and names, by a string, a local
\* file that does not exist.
AtMissingImport ==
    /\ InLoop
    /\ ~Truthy(RawAt(Top).frontmatter["disabled"])
    /\ ~Truthy(RawAt(Top).frontmatter["hide"])
    /\ Truthy(RawAt(Top).frontmatter["src"])
    /\ IsString(RawAt(Top).frontmatter["src"])
    /\ ~IsHttp(ImportPath(RawAt(Top)))
    /\ ImportPath(RawAt(Top)) \notin DOMAIN sources

NeverTouched(path) ==
    /\ path \notin DOMAIN markdownFiles
    /\ path \notin DOMAIN watchFiles
    /\ Calls("loadSource", path) = {} /\ Calls("parse", path) = {}

\* C9: an import slide that is not off and names a local file that does not
\* exist gives one error on the document that owns it (row = its start, the
\* resolved path in the message); the path is not fetched and gets no memo
\* or watch entry, no slide is emitted and no call made, and the loop goes on
\* with the next slide of the importing document.
C9_MissingImport ==
    /\ [](NeverTouched(PathM))
    /\ [][AtMissingImport =>
            /\ OneErrorOn(Top.path,
                  [row |-> StartOf(Top),
                   message |-> <<"Imported markdown file not found: ">>
                                  \o ImportPath(RawAt(Top))])
            /\ io' = Append(io, Event("existsSync", ImportPath(RawAt(Top)), FALSE))
            /\ watchFiles' = watchFiles
            /\ slides' = slides
            /\ LoopGoesOn(Len(stack))]_vars

HasError(path, row, first) ==
    \E n \in 1..Len(markdownFiles[path].errors) :
        /\ markdownFiles[path].errors[n].row = row
        /\ markdownFiles[path].errors[n].message[1] = first

\* C9 witness: B, imported by the entry, has the error for its third slide,
\* src: M, the entry has none, and load has returned.
C9_Witness ==
    /\ pc = "done"
    /\ PathB \in DOMAIN markdownFiles
    /\ Len(markdownFiles[PathB].errors) = 1
    /\ HasError(PathB, 6, "Imported markdown file not found: ")
    /\ markdownFiles[filepath].errors = <<>>
    /\ Len(slides) >= 1

\* A step in which resolving the slide of the call at depth d throws: src is
\* truthy and no string (d is the top call), or the fetch or parse of the
\* imported document fails (d is the call below the top one).
ThrowsAt(d) ==
    \/ /\ InLoop /\ d = Len(stack)
       /\ ~Truthy(RawAt(Top).frontmatter["disabled"])
       /\ ~Truthy(RawAt(Top).frontmatter["hide"])
       /\ Truthy(RawAt(Top).frontmatter["src"])
       /\ ~IsString(RawAt(Top).frontmatter["src"])
    \/ /\ AtEnter /\ d = Len(stack) - 1 /\ d >= 1
       /\ Len(io') > Len(io)
       /\ ~io'[Len(io')].ok /\ io'[Len(io')].op \in {"loadSource", "parse"}

ThrownValueIn(message, d) ==
    /\ Len(message) >= 2
    /\ message[1] = "Error when loading slide: "
    /\ IF d = Len(stack) THEN message[2] = "TypeError"
       ELSE SubSeq(message, Len(message) - Len(Top.path) + 1, Len(message)) = Top.path

\* C10: when resolving a slide throws, the loop of the call that owns the
\* slide catches: one error (row = the slide's start, the thrown value in the
\* message) is appended to the document of that call and nothing else of the
\* memo changes (no other document's errors, no imports list), no slide is
\* emitted, the loop goes on with its next index, and load does not reject.
C10_CaughtPerSlide ==
    /\ []((\E p \in DOMAIN markdownFiles : markdownFiles[p].errors # <<>>)
            => pc # "rejected")
    /\ [][\A d \in 1..Len(stack) : ThrowsAt(d) =>
            /\ markdownFiles'[stack[d].path].errors # <<>>
            /\ LET errs == markdownFiles'[stack[d].path].errors
                   err == errs[Len(errs)]
               IN  /\ err.row = StartOf(stack[d])
                   /\ ThrownValueIn(err.message, d)
                   /\ OneErrorOn(stack[d].path, err)
            /\ NoImportAdded
            /\ slides' = slides
            /\ watchFiles' = watchFiles
            /\ LoopGoesOn(d)]_vars

\* C10 witness: the fetch of the document that the first slide of B names
\* failed; B alone has the error, the import slide of the entry has B's three
\* slides as imports but B's first has none, and load has returned.
C10_Witness ==
    /\ pc = "done"
    /\ PathB \in DOMAIN markdownFiles
    /\ HasError(PathB, 0, "Error when loading slide: ")
    /\ markdownFiles[filepath].errors = <<>>
    /\ thrownAt # {}
    /\ markdownFiles[PathB].slides[1].imports = <<>>
    /\ \E n \in 1..Len(markdownFiles[filepath].slides) :
          markdownFiles[filepath].slides[n].imports =
             <<Ref(PathB, 2), Ref(PathB, 3)>>

(***************************************************************************)
(* C11: failures of the fetch or the parse of a document.                  *)
(***************************************************************************)
\* The fetches and parses that failed, as positions of the log.
FailedLoads == {n \in 1..Len(io) : io[n].op \in {"loadSource", "parse"} /\ ~io[n].ok}

Returned == pc \in {"done", "saved"}

NoAggregate ==
    /\ ~Returned
    /\ stack = <<>>
    /\ headmatter = NoFm

\* C11 as stated: a failed fetch or parse of any document, the entry or an
\* imported one, aborts load: load does not return once one has failed.
C11_AnyFailureAborts == FailedLoads # {} => ~Returned

\* C11 amended: a failed fetch or parse of the entry document rejects load,
\* which yields no aggregate and takes no further step; load rejects for no
\* other reason, and a failed fetch or parse of an imported document leaves
\* load running (the loop of the importing call catches it).
C11_EntryFailureAborts ==
    /\ [](/\ (\E n \in FailedLoads : io[n].path = filepath)
               => (pc = "rejected" /\ NoAggregate)
          /\ pc = "rejected"
               => (/\ io # <<>>
                   /\ Len(io) \in FailedLoads
                   /\ io[Len(io)].path = filepath
                   /\ \A n \in FailedLoads : io[n].path = filepath))
    /\ [][pc # "rejected"]_vars

\* C11 witness: the parse of the entry document failed and load rejected.
C11_Witness ==
    /\ pc = "rejected"
    /\ Len(io) = 3
    /\ io[3] = Event("parse", filepath, FALSE)
    /\ NoAggregate

(***************************************************************************)
(* C12: save.                                                              *)
(***************************************************************************)
SaveStep == pc = "done" /\ pc' = "saved"

\* The text that the slides of the saved document serialize to.
TextOf(path) ==
    [n \in 1..Len(markdownFiles[path].slides) |->
        [frontmatter |-> markdownFiles[path].slides[n].frontmatter,
         title |-> markdownFiles[path].slides[n].title]]

\* C12: a call of save on a document with an http(s) filepath writes nothing
\* and returns the serialized text; on any other document it makes one write,
\* of the serialized text to the document's own filepath, and returns that
\* text.  No other step writes.
C12_Save ==
    [][/\ SaveStep =>
            /\ saved'.filepath \in DOMAIN markdownFiles
            /\ saved'.text = TextOf(saved'.filepath)
            /\ IF saved'.filepath[1] \in {"http://", "https://"}
               THEN writes' = writes
               ELSE writes' = Append(writes, [path |-> saved'.filepath,
                                              text |-> saved'.text])
       /\ ~SaveStep => writes' = writes /\ saved' = saved]_vars

\* C12 witness: save was called on the document of an http URL, which load
\* had imported, and nothing was written.
C12_Witness ==
    /\ pc = "saved"
    /\ saved.filepath = PathH
    /\ saved.text # <<>>
    /\ writes = <<>>

(***************************************************************************)
(* C13: the imports lists.                                                 *)
(***************************************************************************)
\* The raw slides that the range of the import slide ref selects in the
\* document it names, in range order.
SelectedBy(ref) ==
    LET t == sources[ref.filepath][ref.no]
        idxs == ParseRangeString(Len(sources[ImportPath(t)]), ImportRange(t))
    IN  [j \in 1..Len(idxs) |-> Ref(ImportPath(t), idxs[j])]

NoErrors == \A p \in DOMAIN markdownFiles : markdownFiles[p].errors = <<>>

\* C13: when load has returned (with no error recorded on any document),
\* the imports list of every import slide that was resolved is the list of
\* the raw slides its range selects in the target document, in range order,
\* each once per selection.
C13_ImportsExact ==
    (Returned /\ NoErrors) =>
        \A p \in DOMAIN markdownFiles :
            \A n \in 1..Len(markdownFiles[p].slides) :
                markdownFiles[p].slides[n].imports # <<>>
                    => markdownFiles[p].slides[n].imports = SelectedBy(Ref(p, n))

(***************************************************************************)
(* C14: cyclic imports.                                                    *)
(***************************************************************************)
\* The entry has a slide, neither disabled nor hidden, whose src names B, and
\* B has one whose src names the entry.
CyclicPair ==
    /\ sources[PathB] = <<Plain, Import(filepath)>>
    /\ \E n \in 1..Len(sources[filepath]) :
          LET fm == sources[filepath][n].frontmatter
          IN  /\ ~Truthy(fm["disabled"]) /\ ~Truthy(fm["hide"])
              /\ IsString(fm["src"]) /\ Truthy(fm["src"])
              /\ ResolvePath(RawPathOf(Chars(fm["src"]))) = PathB

\* A call for B is active.
InCycle == CyclicPair /\ \E d \in 1..Len(stack) : stack[d].path = PathB

\* The call at depth d has not finished its loop.
Pending(d) == stack[d].st = "enter" \/ stack[d].i <= Len(stack[d].idxs)

\* The call at depth d, below the top, waits at an import slide for the call
\* above it.
WaitsForImport(d) ==
    /\ stack[d].st = "loop" /\ stack[d].i <= Len(stack[d].idxs)
    /\ LET t == sources[stack[d].path][stack[d].idxs[stack[d].i]]
       IN  /\ IsString(t.frontmatter["src"])
           /\ ResolvePath(RawPathOf(Chars(t.frontmatter["src"]))) = stack[d + 1].path

\* The calls for B that are active.
CycleCalls(stk) == {d \in 1..Len(stk) : stk[d].path = PathB}

\* The top call stands at a slide whose src names the entry or B.
AtCycleImport ==
    /\ Top.st = "loop" /\ Top.i <= Len(Top.idxs)
    /\ LET fm == RawFm(Ref(Top.path, Top.idxs[Top.i]))
       IN  /\ ~Truthy(fm["disabled"]) /\ ~Truthy(fm["hide"])
           /\ IsString(fm["src"]) /\ Truthy(fm["src"])
           /\ ResolvePath(RawPathOf(Chars(fm["src"]))) \in {filepath, PathB}

\* C14: with the entry and B importing each other, load never returns: once
\* a call for B is active, no active call for the entry or for B has finished
\* its loop, every call below the top waits at an import slide, no step ends
\* a call for B, and a call that stands at an import slide of the cycle finds
\* the target existing, whether or not the memo holds it and whatever its
\* override is: nothing but the depth that is followed ends the recursion.
C14_CycleNeverReturns ==
    /\ [](/\ CyclicPair => ~Returned
          /\ InCycle =>
                /\ pc = "load"
                /\ \A d \in 1..Len(stack) :
                      stack[d].path \in {filepath, PathB} => Pending(d)
                /\ \A d \in 1..(Len(stack) - 1) : WaitsForImport(d)
                /\ AtCycleImport =>
                      LET q == ResolvePath(RawPathOf(Chars(
                                  RawFm(Ref(Top.path, Top.idxs[Top.i]))["src"])))
                      IN  /\ q \in DOMAIN sources
                          /\ Len(stack) > 2 => q \in DOMAIN markdownFiles)
    /\ [][InCycle => (/\ pc' = "load"
                      /\ Cardinality(CycleCalls(stack'))
                            >= Cardinality(CycleCalls(stack)))]_vars

\* C14 witness: the entry [src: B] and B import each other, both documents
\* are in the memo, and the calls are nested entry, B, entry, B.
C14_Witness ==
    /\ sources[filepath] = <<Import(PathB)>>
    /\ CyclicPair
    /\ Len(stack) = 4
    /\ [d \in 1..4 |-> stack[d].path] = <<filepath, PathB, filepath, PathB>>
    /\ DOMAIN markdownFiles = {filepath, PathB}
    /\ stack[4].frontmatterOverride["src"] = Absent

(***************************************************************************)
(* C15: the import chain is extended by copy.                              *)
(***************************************************************************)
\* The import slides the calls below depth d are at.
ImportersBelow(d) ==
    [j \in 1..(d - 1) |-> Ref(stack[j].path, stack[j].idxs[stack[j].i])]

\* Each active call holds the chain of the call below it plus the one import
\* slide that call is at, and the entry call holds none.
OwnChainOnly ==
    \A d \in 1..Len(stack) :
        /\ stack[d].importers.defined <=> d > 1
        /\ stack[d].importers.list = ImportersBelow(d)
        /\ d > 1 => stack[d].importers.list =
                        Append(stack[d - 1].importers.list,
                               Ref(stack[d - 1].path,
                                   stack[d - 1].idxs[stack[d - 1].i]))

\* C15: extending the chain for an import makes a new list: no step changes
\* the importChain of a slide already emitted, no step changes the chain held
\* by a call that stays active, and every call sees the chain of the call
\* that imported it plus that call's import slide only, never a sibling's.
C15_CopyOnExtend ==
    /\ [](OwnChainOnly)
    /\ [][/\ \A n \in 1..Len(slides) :
                n <= Len(slides') /\ slides'[n].importChain = slides[n].importChain
          /\ \A d \in 1..Len(stack) :
                d <= Len(stack') => stack'[d].importers = stack[d].importers]_vars

\* C15 witness: the entry's two import slides both imported B; a slide of B
\* emitted through the first keeps a chain of the first alone while a slide
\* of B emitted through the second has a chain of the second alone.
C15_Witness ==
    /\ Returned
    /\ \E m, n \in 1..Len(slides) :
          /\ m < n
          /\ slides[m].source = slides[n].source
          /\ slides[m].source.filepath = PathB
          /\ slides[m].importChain.list = <<Ref(filepath, 1)>>
          /\ slides[n].importChain.list = <<Ref(filepath, 2)>>

(***************************************************************************)
(* C16: the headmatter.                                                    *)
(***************************************************************************)
\* The frontmatter of the entry's first raw slide, as the file gives it.
EntryFirstFm ==
    IF sources[filepath] = <<>> THEN NoFm ELSE sources[filepath][1].frontmatter

\* The title of the first output slide, as the file of its source gives it.
FirstTitle == sources[slides[1].source.filepath][slides[1].source.no].title

Backfilled ==
    /\ slides # <<>>
    /\ FirstTitle \notin {Absent, Null, False, Str(<<>>)}
    /\ EntryFirstFm["title"] \in {Absent, Null}

\* C16: when load has returned, the headmatter has the keys and values of the
\* frontmatter of the entry's first raw slide (none when the entry has no
\* slide), whatever that slide is, but for title, which is the first output
\* slide's title when that one is truthy and the raw slide has no title or a
\* null one; and the raw slide's frontmatter in the memo is as the file gave it.
C16_Headmatter ==
    Returned =>
        /\ \A k \in Keys \ {"title"} : headmatter[k] = EntryFirstFm[k]
        /\ headmatter["title"] =
              IF Backfilled THEN FirstTitle ELSE EntryFirstFm["title"]
        /\ sources[filepath] # <<>> =>
              markdownFiles[filepath].slides[1].frontmatter = EntryFirstFm

\* C16 witness: the entry's first raw slide is an import slide with a null
\* title; the headmatter has its src and the title of the first output slide,
\* which the raw slide in the memo has not got.
C16_Witness ==
    /\ Returned
    /\ sources[filepath] # <<>>
    /\ EntryFirstFm["title"] = Null
    /\ Truthy(EntryFirstFm["src"])
    /\ headmatter["src"] = EntryFirstFm["src"]
    /\ headmatter["title"] = Str(<<"w">>)
    /\ markdownFiles[filepath].slides[1].frontmatter["title"] = Null

(***************************************************************************)
(* The default source function of lines 36-46, for a load call that is     *)
(* given a map: sources is the map, and each call of the function is       *)
(* logged with the way it took.                                            *)
(***************************************************************************)
\* The number of calls of the source function that are followed.
MaxSourceCalls == 2

SourcePaths == {filepath, PathB, PathM, PathH}

\* The maps: a path is no key, or is mapped to the empty text, or to a text.
SourceMaps ==
    {[p \in S |-> t[p]] : S \in SUBSET SourcePaths,
                          t \in [SourcePaths -> {<<>>, HDoc}]}

\* Line 40: if (sources[path]); the empty string is falsy, as is undefined.
Overridden(map, path) == path \in DOMAIN map /\ map[path] # <<>>

SourceInit ==
    /\ sources \in SourceMaps
    /\ pc = "source"
    /\ stack = <<>>
    /\ markdownFiles = [p \in {} |-> Parse(<<>>, p)]
    /\ watchFiles = [p \in {} |-> {}]
    /\ slides = <<>>
    /\ headmatter = NoFm
    /\ io = <<>>
    /\ thrownAt = {}
    /\ calls = 0
    /\ writes = <<>>
    /\ saved = [filepath |-> <<>>, text |-> <<>>]

SourceCall(path, way) ==
    /\ pc = "source"
    /\ calls < MaxSourceCalls
    /\ calls' = calls + 1
    /\ io' = Append(io, Event(way, path, TRUE))
    /\ UNCHANGED <<sources, pc, stack, markdownFiles, watchFiles, slides,
                   headmatter, thrownAt, writes, saved>>

\* Line 40: return sources[path].
ReturnFromMap ==
    \E path \in SourcePaths :
        /\ Overridden(sources, path)
        /\ SourceCall(path, "map")

\* Lines 41-44: ofetch(path).
Ofetch ==
    \E path \in SourcePaths :
        /\ ~Overridden(sources, path)
        /\ IsHttp(path)
        /\ SourceCall(path, "ofetch")

\* Line 45: readFile(path, 'utf-8').
ReadFile ==
    \E path \in SourcePaths :
        /\ ~Overridden(sources, path)
        /\ ~IsHttp(path)
        /\ SourceCall(path, "readFile")

SourceNext ==
    \/ ReturnFromMap
    \/ Ofetch
    \/ ReadFile

SourceSpec == SourceInit /\ [][SourceNext]_vars

\* C17: every call of the default source function for a path that is a key of
\* the map is served from the map, whatever the mapped text; only a path that
\* is no key is fetched or read from disk.
C17_KeysServedFromMap ==
    \A n \in 1..Len(io) :
        io[n].op = "map" <=> io[n].path \in DOMAIN sources

(***************************************************************************)
(* C18: termination.  load is one sequential computation: a step that can  *)
(* be taken is taken.                                                      *)
(***************************************************************************)
FairSpec == Spec /\ WF_vars(Next)

\* The loadMarkdown calls of the import tree: one for the document, and those
\* of every import slide of the selection whose file is found, whether or not
\* the document it names can be fetched and parsed.
RECURSIVE TreeCalls(_, _, _, _)
TreeCalls(path, rangeRaw, addr, j) ==
    LET raw == sources[path]
        idxs == ParseRangeString(Len(raw), rangeRaw)
    IN  IF j > Len(idxs) THEN 0
        ELSE LET t == raw[idxs[j]]
                 a == Append(addr, j)
                 here ==
                    IF Truthy(t.frontmatter["disabled"]) \/ Truthy(t.frontmatter["hide"])
                    THEN 0
                    ELSE IF ~Truthy(t.frontmatter["src"]) THEN 0
                    ELSE IF ~IsString(t.frontmatter["src"]) THEN 0
                    ELSE LET q == ResolvePath(RawPathOf(Chars(t.frontmatter["src"])))
                         IN  IF ~IsHttp(q) /\ q \notin DOMAIN sources THEN 0
                             ELSE IF a \in thrownAt THEN 1
                             ELSE 1 + TreeCalls(q, RangeRawOf(Chars(t.frontmatter["src"])),
                                                a, 1)
             IN  here + TreeCalls(path, rangeRaw, addr, j + 1)

\* No import slide that load resolves leads back to itself.
Acyclic == ~CyclicPair

Ended == pc \in {"done", "saved", "rejected"}

\* C18: when the import relation has no cycle, load ends, returning or
\* rejecting; and when it has returned, the loadMarkdown calls it made are
\* one per node of the import tree, the entry's included, a document that is
\* imported several times counting once for each import of it.
C18_Terminates ==
    /\ Acyclic ~> Ended
    /\ [](Returned => calls = 1 + TreeCalls(filepath, <<>>, <<>>, 1))

\* C18 witness: load has returned after importing B twice, each import
\* importing C: the memo holds three documents and the calls were five.
C18_Witness ==
    /\ Returned
    /\ Acyclic
    /\ DOMAIN markdownFiles = {filepath, PathB, PathC}
    /\ thrownAt = {}
    /\ calls = 5

(***************************************************************************)
(* C19: what load changes in a memoized document.                          *)
(***************************************************************************)
\* The slide of the memo is the slide that parse made of the file, but for
\* its imports list.
AsParsed(path, n) ==
    LET s == markdownFiles[path].slides[n]
    IN  /\ s.frontmatter = sources[path][n].frontmatter
        /\ s.title = sources[path][n].title
        /\ s.filepath = path
        /\ s.no = n
        /\ s.start = 3 * (n - 1)

\* C19: in every state, every raw slide of every memoized document has the
\* frontmatter the file gave it, src included, and all its other fields but
\* imports; a step changes nothing of a memoized document but its errors list
\* and the imports lists of its slides; and the frontmatter of an output slide
\* is a mapping of its own, which no later step changes.
C19_RawSlidesUntouched ==
    /\ [](\A p \in DOMAIN markdownFiles :
            /\ markdownFiles[p].filepath = p
            /\ Len(markdownFiles[p].slides) = Len(sources[p])
            /\ \A n \in 1..Len(sources[p]) : AsParsed(p, n))
    /\ [][/\ \A p \in DOMAIN markdownFiles :
                /\ p \in DOMAIN markdownFiles'
                /\ LET old == markdownFiles[p]
                       new == markdownFiles'[p]
                   IN  [new EXCEPT !.errors = old.errors,
                                   !.slides = [n \in 1..Len(new.slides) |->
                                       [new.slides[n] EXCEPT
                                           !.imports = old.slides[n].imports]]] = old
          /\ \A n \in 1..Len(slides) :
                n <= Len(slides') /\ slides'[n].frontmatter = slides[n].frontmatter]_vars

\* C19 witness: a raw slide of B was emitted twice, through two import slides
\* of the entry, with two different frontmatters, and the import slides of
\* the entry still have their src.
C19_Witness ==
    /\ Returned
    /\ Len(sources[filepath]) = 2
    /\ \A n \in 1..2 : Truthy(markdownFiles[filepath].slides[n].frontmatter["src"])
    /\ \E m, n \in 1..Len(slides) :
          /\ slides[m].source = slides[n].source
          /\ slides[m].source.filepath = PathB
          /\ slides[m].frontmatter # slides[n].frontmatter
          /\ slides[m].frontmatter["src"] = Absent
          /\ markdownFiles[PathB].slides[slides[m].source.no].frontmatter
                = sources[PathB][slides[m].source.no].frontmatter

(***************************************************************************)
(* C20: the watch map and the memo.                                        *)
(***************************************************************************)
Parsed(path) == \E n \in 1..Len(io) : io[n] = Event("parse", path, TRUE)

\* The step logs a fetch or parse of path that failed, or that the file of
\* path was not found.
FailsOn(path) ==
    /\ Len(io') > Len(io)
    /\ io'[Len(io')].path = path
    /\ ~io'[Len(io')].ok

\* C20: in every state the watch map and the memo have the same keys, the
\* paths whose fetch and parse succeeded, and every watch set is empty; a
\* step removes no key, adds a key to both maps or to none, and adds none
\* for a path whose fetch or parse it saw fail or whose file it found missing.
C20_WatchAndMemo ==
    /\ [](/\ DOMAIN watchFiles = DOMAIN markdownFiles
          /\ \A p \in Fetchable : p \in DOMAIN watchFiles <=> Parsed(p)
          /\ DOMAIN watchFiles \subseteq Fetchable
          /\ \A p \in DOMAIN watchFiles : watchFiles[p] = {})
    /\ [][/\ DOMAIN watchFiles \subseteq DOMAIN watchFiles'
          /\ DOMAIN markdownFiles \subseteq DOMAIN markdownFiles'
          /\ \A p \in Fetchable :
                FailsOn(p) => /\ DOMAIN watchFiles' = DOMAIN watchFiles
                              /\ DOMAIN markdownFiles' = DOMAIN markdownFiles]_vars

\* C20 witness: load has returned; the fetch of H failed and M was found
\* missing, and neither is a key of either map; the entry and B are keys of
\* both, with empty watch sets.
C20_Witness ==
    /\ Returned
    /\ Failed(PathH) # {}
    /\ \E n \in 1..Len(io) : io[n] = Event("existsSync", PathM, FALSE)
    /\ DOMAIN watchFiles = {filepath, PathB}
    /\ DOMAIN markdownFiles = {filepath, PathB}
    /\ watchFiles[PathB] = {}

====
